---- MODULE Spec2Model ----
(***************************************************************************)
(* Model of src/blackbox1.py: the /submit handler and the components it    *)
(* drives (CodeGenerator.query_mistral, DynamicCodeExecutor.execute,       *)
(* DynamicCodeExecutor.debug_and_retry, format_result).                    *)
(*                                                                         *)
(* Texts (model replies, programs, answers, error messages) are sequences  *)
(* of tokens.  Module names are sequences of their dotted components, so   *)
(* "PIL.Image" is <<"PIL", "Image">>.                                      *)
(***************************************************************************)
EXTENDS Integers, Sequences, FiniteSets, TLC

VARIABLES
    retries,        \* CodeGenerator.retries (MAX_RETRIES read from the environment)
    installed,      \* which of EnvModules the interpreter can import
    sys_modules,    \* submodules already imported by this process
    pc,             \* position of the request inside submit
    file,           \* the uploaded file of the request
    file_data,      \* submit's file_data (None when no file was sent)
    file_info,      \* submit's file_info
    prompt,         \* the user prompt of the current query_mistral call
    call,           \* 1: the task generation, 2: the generation made by debug_and_retry
    attempt,        \* loop variable of query_mistral
    posts,          \* requests.post calls made by the current query_mistral call
    rate_limited,   \* how many of them were answered 429
    backend,        \* outcome of the latest requests.post
    sleeps,         \* time.sleep durations of the current query_mistral call
    response,       \* text returned by the query_mistral call of this phase
    code,           \* program taken from it and handed to execute
    unavailable,    \* execute's unavailable list
    result_data,    \* dict returned by the latest execute
    answer,         \* the "answer" of the response body
    status,         \* HTTP status of the response, 0 while there is none
    synthCalls,     \* query_mistral calls of this request
    execCalls,      \* execute calls of this request
    httpRequests,   \* requests.post calls of this request
    trace,          \* the request's calls and returns, in order
    required_modules, \* execute's required_modules
    modules_dict,   \* the aliases of execute's modules_dict
    globals_dict,   \* the names bound in execute's globals_dict, {} while there is none
    local_dict,     \* execute's local_dict after exec
    hung,           \* exec is running a program that does not return
    registry,       \* the module-level dict AVAILABLE_MODULES as the process holds it
    running,        \* the request whose handler holds the event loop, 0 when it is free
    handlers        \* where the handler of each concurrent request stands

envVars  == <<retries, installed, sys_modules>>
reqVars  == <<file, file_data, file_info>>
callVars == <<attempt, posts, rate_limited, backend, sleeps>>
execVars == <<code, unavailable, result_data>>
outVars  == <<answer, status>>
cntVars  == <<synthCalls, execCalls, httpRequests>>
scopeVars == <<required_modules, modules_dict, globals_dict, local_dict, hung>>
procVars == <<registry, running, handlers>>
vars == <<retries, installed, sys_modules, pc, file, file_data, file_info,
          prompt, call, attempt, posts, rate_limited, backend, sleeps,
          response, code, unavailable, result_data, answer, status,
          synthCalls, execCalls, httpRequests, trace,
          required_modules, modules_dict, globals_dict, local_dict, hung,
          registry, running, handlers>>

(***************************************************************************)
(* Bounds                                                                  *)
(***************************************************************************)
MaxRetries  == 3    \* retries ranges over 0..MaxRetries
MaxReplyLen == 2    \* tokens in a model reply

(***************************************************************************)
(* Program constants                                                       *)
(***************************************************************************)
RETRY_DELAY == 2

OPEN  == "[fence python]"   \* the text of three backticks followed by python
CLOSE == "[fence]"          \* the text of three backticks
SPACE == " "
TEXT  == "x"
IMPORT_PIL_IMAGE == "import PIL.Image"
SYNTAX_ERROR == "x = ("     \* a statement that ast.parse and exec reject

\* the pieces a model reply is made of: white space, a statement, the two
\* fence markers, an import statement and a statement that is not Python
Tokens == {SPACE, TEXT, OPEN, CLOSE, IMPORT_PIL_IMAGE, SYNTAX_ERROR}

ImportTokens == {IMPORT_PIL_IMAGE}

\* the module an import statement names
ImportedModule(tok) == <<"PIL", "Image">>

\* top-level packages that may be missing from the interpreter; every other
\* package named in the source is taken to be installed
EnvModules == {"PIL"}

\* dotted registry names whose last component is a submodule: the attribute
\* exists on the package only once the submodule has been imported
LazySubmodules == {<<"PIL", "Image">>}

AVAILABLE_MODULES == <<
    [name |-> <<"pandas">>,               alias |-> "pd"],
    [name |-> <<"numpy">>,                alias |-> "np"],
    [name |-> <<"PIL">>,                  alias |-> "PIL"],
    [name |-> <<"PIL", "Image">>,         alias |-> "Image"],
    [name |-> <<"zipfile">>,              alias |-> "zipfile"],
    [name |-> <<"io">>,                   alias |-> "io"],
    [name |-> <<"hashlib">>,              alias |-> "hashlib"],
    [name |-> <<"json">>,                 alias |-> "json"],
    [name |-> <<"re">>,                   alias |-> "re"],
    [name |-> <<"pdfplumber">>,           alias |-> "pdfplumber"],
    [name |-> <<"datetime">>,             alias |-> "datetime"],
    [name |-> <<"csv">>,                  alias |-> "csv"],
    [name |-> <<"os">>,                   alias |-> "os"],
    [name |-> <<"sys">>,                  alias |-> "sys"],
    [name |-> <<"bs4">>,                  alias |-> "bs4"],
    [name |-> <<"bs4", "BeautifulSoup">>, alias |-> "BeautifulSoup"],
    [name |-> <<"requests">>,             alias |-> "requests"],
    [name |-> <<"openpyxl">>,             alias |-> "openpyxl"],
    [name |-> <<"dateutil", "parser">>,   alias |-> "date_parser"],
    [name |-> <<"gzip">>,                 alias |-> "gzip"],
    [name |-> <<"feedparser">>,           alias |-> "feedparser"],
    [name |-> <<"github">>,               alias |-> "Github"],
    [name |-> <<"prettier">>,             alias |-> "prettier"] >>

RegistryNames == {AVAILABLE_MODULES[i].name : i \in 1..Len(AVAILABLE_MODULES)}

(***************************************************************************)
(* Text helpers                                                            *)
(***************************************************************************)
RECURSIVE SeqsUpTo(_, _)
SeqsUpTo(S, n) ==
    IF n = 0 THEN {<<>>}
    ELSE LET shorter == SeqsUpTo(S, n - 1)
         IN  shorter \cup {Append(s, t) : s \in {u \in shorter : Len(u) = n - 1}, t \in S}

Replies == SeqsUpTo(Tokens, MaxReplyLen)

\* str.strip()
RECURSIVE LStrip(_)
LStrip(s) == IF s # <<>> /\ Head(s) = SPACE THEN LStrip(Tail(s)) ELSE s

RECURSIVE RStrip(_)
RStrip(s) ==
    IF s # <<>> /\ s[Len(s)] = SPACE THEN RStrip(SubSeq(s, 1, Len(s) - 1)) ELSE s

\* only the leading white space is removed
Strip_left(s) == LStrip(s)

Strip(s) == RStrip(LStrip(s))

\* the test for the opening fence in a text
HasFence(s) == \E i \in 1..Len(s) : s[i] = OPEN

\* text.split(sep)[0] for the separators in seps
RECURSIVE UpToFirst(_, _)
UpToFirst(s, seps) ==
    IF s = <<>> \/ Head(s) \in seps THEN <<>>
    ELSE <<Head(s)>> \o UpToFirst(Tail(s), seps)

\* the text after the first occurrence of sep
RECURSIVE AfterFirst(_, _)
AfterFirst(s, sep) ==
    IF s = <<>> THEN <<>>
    ELSE IF Head(s) = sep THEN Tail(s) ELSE AfterFirst(Tail(s), sep)

\* response.split(OPEN)[1].split(CLOSE)[0].strip(); the text of OPEN itself
\* begins with the text of CLOSE
ExtractCode(s) == Strip(UpToFirst(AfterFirst(s, OPEN), {OPEN, CLOSE}))

RECURSIVE Sum(_)
Sum(s) == IF s = <<>> THEN 0 ELSE Head(s) + Sum(Tail(s))

Count(s, e) == Cardinality({i \in 1..Len(s) : s[i] = e})

(***************************************************************************)
(* The request: question and optional upload                               *)
(***************************************************************************)
QUESTION == <<"question">>

NoFile == [present |-> FALSE, filename |-> <<>>, data |-> <<>>]

\* a file name is <<stem, extension>>; file bytes are a sequence of chunks,
\* "PK34" standing for the four bytes of the ZIP signature
Files == {NoFile} \cup
         {[present |-> TRUE, filename |-> <<"q", "csv">>, data |-> d] :
              d \in {<<>>, <<"PK34", "a">>}}

Min(a, b) == IF a < b THEN a ELSE b

\* a chunk stands for four bytes: file_data[:32] is the first eight chunks
FirstBytes(data) == SubSeq(data, 1, Min(Len(data), 8))

get_file_type_hint(filename, first_bytes) ==
    LET starts(sig) == first_bytes # <<>> /\ Head(first_bytes) = sig
        extension == IF Len(filename) > 1 THEN filename[Len(filename)] ELSE ""
    IN  IF starts("PK34") THEN "ZIP archive"
        ELSE IF starts("%PDF") THEN "PDF document"
        ELSE IF starts("JPEG") THEN "JPEG image"
        ELSE IF starts("PNG") THEN "PNG image"
        ELSE IF starts("RIFF") /\ \E i \in 2..Min(Len(first_bytes), 3) : first_bytes[i] = "WEBP"
        THEN "WebP image"
        ELSE CASE extension = "zip"   -> "ZIP archive"
               [] extension = "csv"   -> "CSV file"
               [] extension = "json"  -> "JSON file"
               [] extension = "jsonl" -> "JSONL file"
               [] extension = "xlsx"  -> "Excel file"
               [] extension = "xls"   -> "Excel file"
               [] extension = "pdf"   -> "PDF document"
               [] extension = "txt"   -> "Text file"
               [] extension = "gz"    -> "GZIP compressed file"
               [] extension = "webp"  -> "WebP image"
               [] OTHER -> "unknown"

\* line 463 (None) and line 468 (the bytes read)
FileData(f) == [none |-> ~f.present, bytes |-> f.data]

\* lines 464 and 472-481; the hexadecimal text keeps the first 10 bytes, here
\* the first two chunks
FileInfo(f) ==
    IF ~f.present
    THEN [filename |-> <<"None">>, type |-> "None", size |-> 0, first_bytes_hex |-> <<>>]
    ELSE LET first_bytes == FirstBytes(f.data)
         IN  [filename |-> f.filename,
              type |-> get_file_type_hint(f.filename, first_bytes),
              size |-> Len(f.data),
              first_bytes_hex |->
                  IF first_bytes # <<>>
                  THEN SubSeq(first_bytes, 1, Min(Len(first_bytes), 2)) \o <<"...">>
                  ELSE <<>>]

RegistryKeys == [i \in 1..Len(AVAILABLE_MODULES) |-> AVAILABLE_MODULES[i].name]

NoPrompt == [kind |-> "none", question |-> <<>>, file_info |-> FileInfo(NoFile),
             modules |-> <<>>, error |-> <<>>, traceback |-> <<>>, unavailable |-> <<>>]

\* submit, lines 486-501: the question alone unless file_data is non-empty
EnhancedQuestion(q, fd, fi) ==
    IF ~fd.none /\ fd.bytes # <<>>
    THEN [NoPrompt EXCEPT !.kind = "enhanced", !.question = q, !.file_info = fi,
                          !.modules = RegistryKeys]
    ELSE [NoPrompt EXCEPT !.kind = "question", !.question = q]

(***************************************************************************)
(* DynamicCodeExecutor helpers                                             *)
(***************************************************************************)
\* ast.parse accepts the program: a fence marker is not Python
Parsable(c) == \A i \in 1..Len(c) : c[i] \notin {OPEN, CLOSE, SYNTAX_ERROR}

get_required_modules(c) ==
    IF ~Parsable(c) THEN {}
    ELSE {ImportedModule(c[i]) : i \in {j \in 1..Len(c) : c[j] \in ImportTokens}}

\* __import__(package) succeeds
ImportOk(package, inst) == package \notin EnvModules \/ package \in inst

\* getattr along the components of a dotted name succeeds
AttrOk(name, sysm) == name \notin LazySubmodules \/ name \in sysm

\* m.startswith(module_name + ".")
IsUnder(m, module_name) ==
    Len(m) > Len(module_name) /\ SubSeq(m, 1, Len(module_name)) = module_name

RECURSIVE SetToSeq(_)
SetToSeq(S) ==
    IF S = {} THEN <<>>
    ELSE LET x == CHOOSE y \in S : TRUE IN <<x>> \o SetToSeq(S \ {x})

\* lines 257-271: the first loop, over the registry in its order; only
\* ImportError is caught, so a failing getattr leaves the function
RECURSIVE LoadRegistry(_, _, _, _, _)
LoadRegistry(i, required, inst, sysm, acc) ==
    IF i > Len(AVAILABLE_MODULES) THEN acc
    ELSE LET e == AVAILABLE_MODULES[i]
             wanted == e.name \in required \/ \E m \in required : IsUnder(m, e.name)
         IN  IF ~wanted THEN LoadRegistry(i + 1, required, inst, sysm, acc)
             ELSE IF ~ImportOk(e.name[1], inst)
             THEN LoadRegistry(i + 1, required, inst, sysm,
                               [acc EXCEPT !.unavailable = Append(@, e.name)])
             ELSE IF ~AttrOk(e.name, sysm)
             THEN [acc EXCEPT !.raised = TRUE]
             ELSE LoadRegistry(i + 1, required, inst, sysm,
                               [acc EXCEPT !.modules = @ \cup {e.alias}])

\* lines 274-280: the second loop, over the other undotted names
RECURSIVE LoadOthers(_, _, _)
LoadOthers(names, inst, acc) ==
    IF names = <<>> THEN acc
    ELSE LET m == Head(names)
         IN  IF ImportOk(m[1], inst)
             THEN LoadOthers(Tail(names), inst, [acc EXCEPT !.modules = @ \cup {m[1]}])
             ELSE LoadOthers(Tail(names), inst,
                             [acc EXCEPT !.unavailable = Append(@, m)])

load_modules_dynamically(required, inst, sysm) ==
    LET first == LoadRegistry(1, required, inst, sysm,
                              [modules |-> {}, unavailable |-> <<>>, raised |-> FALSE])
        others == SetToSeq({m \in required : Len(m) = 1 /\ m \notin RegistryNames})
    IN  IF first.raised THEN first ELSE LoadOthers(others, inst, first)

\* packages imported while the globals dictionary is built (lines 299-328),
\* in the order of the dictionary literal
GlobalsImports == <<"sys", "csv", "datetime", "calendar", "shutil", "pathlib",
                    "gzip", "subprocess", "collections", "pandas", "chardet",
                    "feedparser", "requests", "openpyxl", "PIL">>

\* the keys of the dictionary literal of lines 299-328
GlobalsNames == {"io", "StringIO", "BytesIO", "file_data", "os", "sys", "re", "json",
                 "csv", "zipfile", "hashlib", "time", "datetime", "calendar",
                 "shutil", "pathlib", "gzip", "subprocess", "collections",
                 "pandas", "chardet", "feedparser", "requests", "openpyxl", "PIL"}

GlobalsOk(inst) == \A i \in 1..Len(GlobalsImports) : ImportOk(GlobalsImports[i], inst)

(***************************************************************************)
(* Execution outcomes                                                      *)
(***************************************************************************)
NoValue == [kind |-> "none", repr |-> <<>>]
StrValue(t) == [kind |-> "str", repr |-> t]
IntValue(t) == [kind |-> "int", repr |-> t]
SENTINEL == StrValue(<<"Execution successful but no result was returned.">>)

NoResult == [success |-> FALSE, result |-> NoValue, error |-> <<>>,
             traceback |-> <<>>, unavailable_modules |-> <<>>]

Success(v) == [NoResult EXCEPT !.success = TRUE, !.result = v]

\* a failure that leaves out its traceback
Failure_untraced(err, tb, unavail) ==
    [NoResult EXCEPT !.error = err, !.unavailable_modules = unavail]

\* lines 341-346 and 369-374: the dictionary of a failed execution
Failure(err, tb, unavail) ==
    [NoResult EXCEPT !.error = err, !.traceback = tb, !.unavailable_modules = unavail]

QUOTE == "\""

\* sep.join(texts)
RECURSIVE Join(_, _)
Join(texts, sep) ==
    IF texts = <<>> THEN <<>>
    ELSE Head(texts) \o (IF Tail(texts) = <<>> THEN <<>> ELSE <<sep>>)
         \o Join(Tail(texts), sep)

\* repr(v), which str(dict) applies to the values of the dict
PyRepr(v) == IF v.kind = "str" THEN <<"'">> \o v.repr \o <<"'">> ELSE v.repr

\* keys that are tuples, as a grouping by two columns leaves them
TupleKeys == {"(1, 2)"}

\* repr of a key: a text between quotes, a tuple as it prints
KeyRepr(k) == IF k \in TupleKeys THEN <<k>> ELSE <<"'", k, "'">>

\* a dict, its items in insertion order; repr holds str(result)
DictValue(es) ==
    [kind |-> "dict",
     repr |-> <<"{">>
              \o Join([i \in 1..Len(es) |-> KeyRepr(es[i].key) \o <<": ">> \o PyRepr(es[i].value)],
                      ", ")
              \o <<"}">>,
     entries |-> es]

\* json.dumps of a value of a dict: numbers as they print, True as true, None
\* as null, a text between double quotes, and str(v) between double quotes
\* for what json cannot encode (default=str)
JsonValue(v) ==
    CASE v.kind \in {"int", "float"} -> v.repr
      [] v.kind = "bool" -> IF v.repr = <<"True">> THEN <<"true">> ELSE <<"false">>
      [] v.kind = "NoneType" -> <<"null">>
      [] OTHER -> <<QUOTE>> \o v.repr \o <<QUOTE>>

\* str(dict) is returned where json.dumps is meant
JsonDumps_str(es) == DictValue(es).repr

\* line 444: json.dumps(result, default=str), for keys that json encodes
JsonDumps(es) ==
    <<"{">>
    \o Join([i \in 1..Len(es) |-> <<QUOTE, es[i].key, QUOTE, ": ">> \o JsonValue(es[i].value)],
            ", ")
    \o <<"}">>

\* every text is printed as its repr, between quotes
format_result_repr(result) == PyRepr(result)

\* lines 432-450
format_result(result) ==
    IF result.kind \in {"int", "float", "bool"} THEN result.repr
    ELSE IF result.kind = "dict"
    THEN IF Len(result.entries) = 1 THEN result.entries[1].value.repr
         ELSE JsonDumps(result.entries)
    ELSE result.repr

\* line 444: json.dumps raises TypeError for a key that is not a str, an int,
\* a float, a bool or None; default=str is applied to values only
FormatRaises(result) ==
    /\ result.kind = "dict"
    /\ Len(result.entries) # 1
    /\ \E i \in 1..Len(result.entries) : result.entries[i].key \in TupleKeys

JsonKeyError == <<"keys must be str, int, float, bool or None, not tuple">>

\* the local namespaces a completed program may leave, in insertion order
LocalDicts == {
    <<>>,
    <<[name |-> "_tmp", value |-> IntValue(<<"7">>)]>>,
    <<[name |-> "total", value |-> IntValue(<<"7">>)]>>,
    <<[name |-> "result", value |-> StrValue(<<"42">>)], [name |-> "total", value |-> IntValue(<<"7">>)]>>,
    <<[name |-> "total", value |-> IntValue(<<"7">>)], [name |-> "_tmp", value |-> StrValue(<<"t">>)]>>,
    <<[name |-> "result",
       value |-> DictValue(<<[key |-> "(1, 2)", value |-> IntValue(<<"7">>)],
                             [key |-> "a", value |-> IntValue(<<"7">>)]>>)]>> }

Private(name) == name \in {"_tmp"}

\* the first binding that is not private is returned instead of the last
SelectResult_first(ns) ==
    LET named == {i \in 1..Len(ns) : ns[i].name = "result"}
        vars_list == {i \in 1..Len(ns) : ~Private(ns[i].name)}
    IN  IF named # {} THEN Success(ns[CHOOSE i \in named : TRUE].value)
        ELSE IF vars_list # {}
        THEN Success(ns[CHOOSE i \in vars_list : \A j \in vars_list : i <= j].value)
        ELSE Success(SENTINEL)

\* lines 349-365
SelectResult(ns) ==
    LET named == {i \in 1..Len(ns) : ns[i].name = "result"}
        vars_list == {i \in 1..Len(ns) : ~Private(ns[i].name)}
    IN  IF named # {} THEN Success(ns[CHOOSE i \in named : TRUE].value)
        ELSE IF vars_list # {}
        THEN Success(ns[CHOOSE i \in vars_list : \A j \in vars_list : j <= i].value)
        ELSE Success(SENTINEL)

\* messages of the exceptions a program raises (str(e) may be empty)
ExceptionMessages == {<<>>, <<"division by zero">>}

\* traceback.format_exc()
FormatExc(msg) == <<"Traceback (most recent call last):">> \o msg

\* line 343
ExecutionError(msg) == <<"Execution Error: ">> \o msg

\* line 371
SystemError(msg) == <<"System Error: ">> \o msg

\* line 543
ProcessingError(msg) == <<"Error: ">> \o msg

\* the names a program's import statements bind, in program order
RECURSIVE ImportBindings(_)
ImportBindings(c) ==
    IF c = <<>> THEN <<>>
    ELSE IF Head(c) \in ImportTokens
    THEN <<[name |-> ImportedModule(Head(c))[1],
            value |-> [kind |-> "module", repr |-> <<"<module>", ImportedModule(Head(c))[1]>>]]>>
         \o ImportBindings(Tail(c))
    ELSE ImportBindings(Tail(c))

Blank(c) == \A i \in 1..Len(c) : c[i] = SPACE

\* an import statement of the program names a package that cannot be imported
MissingImport(c, inst) ==
    \E i \in 1..Len(c) : c[i] \in ImportTokens /\ ~ImportOk(ImportedModule(c[i])[1], inst)

\* a program that does not parse is skipped and counts as completed
ProgramOutcomes_skipped(c, inst) ==
    IF ~Parsable(c) THEN {[kind |-> "ok", msg |-> <<>>, locals |-> <<>>]}
    ELSE {[kind |-> "raise", msg |-> m, locals |-> <<>>] : m \in ExceptionMessages}

\* what exec(code, globals_dict, local_dict) can do (line 336)
ProgramOutcomes(c, inst) ==
    IF ~Parsable(c) THEN {[kind |-> "raise", msg |-> <<"invalid syntax">>, locals |-> <<>>]}
    ELSE IF MissingImport(c, inst)
    THEN {[kind |-> "raise", msg |-> <<"No module named">>, locals |-> <<>>]}
    ELSE IF Blank(c) THEN {[kind |-> "ok", msg |-> <<>>, locals |-> <<>>]}
    ELSE {[kind |-> "raise", msg |-> m, locals |-> <<>>] : m \in ExceptionMessages}
         \cup {[kind |-> "exit", msg |-> <<>>, locals |-> <<>>]}
         \cup {[kind |-> "hang", msg |-> <<>>, locals |-> <<>>]}
         \cup {[kind |-> "ok", msg |-> <<>>, locals |-> ImportBindings(c) \o l] : l \in LocalDicts}

(***************************************************************************)
(* CodeGenerator.query_mistral                                            *)
(***************************************************************************)
\* one iteration too many
InLoop_offbyone(a) == a <= retries

\* line 187: for attempt in range(self.retries)
InLoop(a) == a < retries

\* no attempt is taken to be the final one
LastAttempt_never(a) == FALSE

\* lines 213, 219: attempt == self.retries - 1
LastAttempt(a) == a = retries - 1

\* the delay grows linearly
Backoff_linear(a) == RETRY_DELAY * (a + 1)

\* the delay does not grow
Backoff_const(a) == RETRY_DELAY

\* lines 198, 208, 215, 221: wait = self.retry_delay * (2 ** attempt)
Backoff(a) == RETRY_DELAY * (2 ^ a)

\* the HTTPException is swallowed by the handler of line 539
HTTPExceptionStatus_swallowed(status_code) == 200

\* lines 536-538: submit re-raises the HTTPException; the status of the response
HTTPExceptionStatus(status_code) == status_code

\* no sleep follows the final attempt
Retry_nofinalsleep(kind) ==
    /\ posts' = posts + 1
    /\ httpRequests' = httpRequests + 1
    /\ rate_limited' = IF kind = "rate_limited" THEN rate_limited + 1 ELSE rate_limited
    /\ backend' = kind
    /\ sleeps' = IF LastAttempt(attempt) THEN sleeps ELSE Append(sleeps, Backoff(attempt))
    /\ attempt' = attempt + 1
    /\ UNCHANGED <<scopeVars, envVars, reqVars, execVars, outVars, pc, prompt, call, response,
                   synthCalls, execCalls, trace>>
    /\ UNCHANGED procVars

\* one requests.post that ends in time.sleep(wait) and the next iteration
Retry(kind) ==
    /\ posts' = posts + 1
    /\ httpRequests' = httpRequests + 1
    /\ rate_limited' = IF kind = "rate_limited" THEN rate_limited + 1 ELSE rate_limited
    /\ backend' = kind
    /\ sleeps' = Append(sleeps, Backoff(attempt))
    /\ attempt' = attempt + 1
    /\ UNCHANGED <<scopeVars, envVars, reqVars, execVars, outVars, pc, prompt, call, response,
                   synthCalls, execCalls, trace>>
    /\ UNCHANGED procVars

\* raise HTTPException(status_code) out of query_mistral and out of submit
Raise(kind, status_code) ==
    /\ posts' = posts + 1
    /\ httpRequests' = httpRequests + 1
    /\ backend' = kind
    /\ pc' = "done"
    /\ status' = HTTPExceptionStatus(status_code)
    /\ answer' = <<>>
    /\ trace' = Append(trace, "backend_error")
    /\ UNCHANGED <<scopeVars, envVars, reqVars, execVars, prompt, call, response, attempt,
                   rate_limited, sleeps, synthCalls, execCalls>>
    /\ UNCHANGED procVars

\* lines 197-201: HTTP 429
RateLimited ==
    /\ pc = "query" /\ InLoop(attempt)
    /\ Retry("rate_limited")

\* lines 206-210: a transport error, an error status raised by raise_for_status,
\* or a body that is not JSON (requests' JSONDecodeError is a RequestException)
RequestError ==
    /\ pc = "query" /\ InLoop(attempt)
    /\ Retry("request_error")

\* lines 211-216: KeyError, IndexError or json.JSONDecodeError
ParseError ==
    /\ pc = "query" /\ InLoop(attempt)
    /\ IF LastAttempt(attempt) THEN Raise("parse_error", 500) ELSE Retry("parse_error")

\* lines 217-222: any other exception
UnexpectedError ==
    /\ pc = "query" /\ InLoop(attempt)
    /\ IF LastAttempt(attempt) THEN Raise("unexpected_error", 500)
       ELSE Retry("unexpected_error")

\* line 224: the loop ran out
Exhausted ==
    /\ pc = "query" /\ ~InLoop(attempt)
    /\ pc' = "done"
    /\ status' = HTTPExceptionStatus(503)
    /\ answer' = <<>>
    /\ trace' = Append(trace, "backend_error")
    /\ UNCHANGED <<scopeVars, envVars, reqVars, execVars, callVars, cntVars, prompt, call,
                   response>>
    /\ UNCHANGED procVars

\* lines 203-204: status 200 and a well-formed body; the content is returned
Reply(r) ==
    /\ pc = "query" /\ InLoop(attempt)
    /\ posts' = posts + 1
    /\ httpRequests' = httpRequests + 1
    /\ backend' = "ok"
    /\ response' = r
    /\ pc' = "reply"
    /\ trace' = Append(trace, "reply")
    /\ UNCHANGED <<scopeVars, envVars, reqVars, execVars, outVars, prompt, call, attempt,
                   rate_limited, sleeps, synthCalls, execCalls>>
    /\ UNCHANGED procVars

(***************************************************************************)
(* submit                                                                  *)
(***************************************************************************)
\* the locals of query_mistral exist only while a call is active
NoCall ==
    /\ attempt' = 0
    /\ posts' = 0
    /\ rate_limited' = 0
    /\ backend' = "none"
    /\ sleeps' = <<>>

\* the locals of execute exist only from its call to the caller's next step
NoScope ==
    /\ required_modules' = {}
    /\ modules_dict' = {}
    /\ globals_dict' = {}
    /\ local_dict' = <<>>
    /\ hung' = FALSE

\* a query_mistral call begins
EnterQuery(p, c) ==
    /\ prompt' = p
    /\ call' = c
    /\ NoCall
    /\ pc' = "query"

\* lines 458-504: a request arrives, the prompt is built and query_mistral is entered
Submit(f) ==
    /\ pc \in {"idle", "done"}
    /\ file' = f
    /\ file_data' = FileData(f)
    /\ file_info' = FileInfo(f)
    /\ EnterQuery(EnhancedQuestion(QUESTION, FileData(f), FileInfo(f)), 1)
    /\ response' = <<>>
    /\ code' = <<>>
    /\ unavailable' = <<>>
    /\ result_data' = NoResult
    /\ answer' = <<>>
    /\ status' = 0
    /\ synthCalls' = 1
    /\ execCalls' = 0
    /\ httpRequests' = 0
    /\ trace' = <<"synth">>
    /\ NoScope
    /\ UNCHANGED envVars
    /\ UNCHANGED procVars

\* lines 507-509: no code block in the reply
DirectAnswer ==
    /\ pc = "reply" /\ call = 1
    /\ ~HasFence(response)
    /\ answer' = Strip(response)
    /\ status' = 200
    /\ pc' = "done"
    /\ NoCall
    /\ UNCHANGED <<scopeVars, envVars, reqVars, execVars, cntVars, prompt, call,
                   response, trace>>
    /\ UNCHANGED procVars

\* line 512
ExtractProgram ==
    /\ pc = "reply" /\ call = 1
    /\ HasFence(response)
    /\ code' = ExtractCode(response)
    /\ pc' = "execute"
    /\ NoCall
    /\ UNCHANGED <<scopeVars, envVars, reqVars, outVars, cntVars, prompt, call,
                   response, unavailable, result_data, trace>>
    /\ UNCHANGED procVars

\* lines 427-430: the corrected code is the block when the reply has one,
\* the whole reply otherwise
CorrectedCode(r) == IF HasFence(r) THEN ExtractCode(r) ELSE r

\* lines 427-430 and the return of debug_and_retry to line 522
RepairExtract ==
    /\ pc = "reply" /\ call = 2
    /\ code' = CorrectedCode(response)
    /\ pc' = "execute"
    /\ NoCall
    /\ UNCHANGED <<scopeVars, envVars, reqVars, outVars, cntVars, prompt, call,
                   response, unavailable, result_data, trace>>
    /\ UNCHANGED procVars

\* lines 288-295 of execute, called at line 515 or 525: the modules are loaded
\* outside the try block, so an exception of load_modules_dynamically leaves
\* execute and reaches submit's handler of line 539
ExecuteLoad ==
    /\ pc = "execute"
    /\ execCalls' = execCalls + 1
    /\ LET loaded == load_modules_dynamically(get_required_modules(code),
                                              installed, sys_modules)
       IN  /\ required_modules' = get_required_modules(code)
           /\ modules_dict' = loaded.modules
           /\ unavailable' = loaded.unavailable
           /\ IF loaded.raised
              THEN /\ answer' = ProcessingError(<<"module has no attribute">>)
                   /\ status' = 200
                   /\ pc' = "done"
                   /\ trace' = trace \o <<"execute", "load_error">>
              ELSE /\ pc' = "scope"
                   /\ trace' = Append(trace, "execute")
                   /\ UNCHANGED outVars
    /\ UNCHANGED <<envVars, reqVars, callVars, prompt, call, response, code,
                   result_data, synthCalls, httpRequests, globals_dict, local_dict,
                   hung>>
    /\ UNCHANGED procVars

\* lines 297-328 and 367-374: building the globals dictionary fails
SetupError ==
    /\ pc = "scope" /\ ~hung
    /\ ~GlobalsOk(installed)
    /\ result_data' = Failure(SystemError(<<"No module named">>),
                              FormatExc(<<"No module named">>), unavailable)
    /\ pc' = "result"
    /\ trace' = Append(trace, "setup_failure")
    /\ UNCHANGED <<scopeVars, envVars, reqVars, callVars, outVars, cntVars, prompt, call,
                   response, code, unavailable>>
    /\ UNCHANGED procVars

\* the globals dictionary was built: its imports are now loaded
RunProgram(o) ==
    /\ pc = "scope"
    /\ GlobalsOk(installed)
    /\ ~hung
    /\ o \in ProgramOutcomes(code, installed)
    /\ sys_modules' = sys_modules \cup LazySubmodules
    /\ globals_dict' = GlobalsNames
    /\ local_dict' = o.locals
    /\ UNCHANGED <<retries, installed, reqVars, callVars, outVars, cntVars, prompt,
                   call, response, code, unavailable, required_modules, modules_dict>>
    /\ UNCHANGED procVars

\* lines 337-346: the program raised an Exception
ProgramRaises ==
    \E o \in ProgramOutcomes(code, installed) :
        /\ o.kind = "raise"
        /\ RunProgram(o)
        /\ result_data' = Failure(ExecutionError(o.msg), FormatExc(o.msg), unavailable)
        /\ pc' = "result"
        /\ trace' = Append(trace, "raised")
        /\ UNCHANGED hung

\* the program raised SystemExit or another BaseException that is not an
\* Exception: neither line 337, line 367 nor line 539 catches it
ProgramExits ==
    \E o \in ProgramOutcomes(code, installed) :
        /\ o.kind = "exit"
        /\ RunProgram(o)
        /\ pc' = "escaped"
        /\ trace' = Append(trace, "exited")
        /\ UNCHANGED <<result_data, hung>>

\* the program does not return (while True: pass): line 336 is a plain exec,
\* nothing interrupts it, and the handler stays inside execute
ProgramHangs ==
    \E o \in ProgramOutcomes(code, installed) :
        /\ o.kind = "hang"
        /\ RunProgram(o)
        /\ hung' = TRUE
        /\ UNCHANGED <<pc, trace, result_data>>

\* lines 348-365: the program ran to its end
ProgramCompletes ==
    \E o \in ProgramOutcomes(code, installed) :
        /\ o.kind = "ok"
        /\ RunProgram(o)
        /\ result_data' = SelectResult(o.locals)
        /\ pc' = "result"
        /\ trace' = Append(trace, "completed")
        /\ UNCHANGED hung

\* a failure is always repaired, however many executions there were
NeedsRepair_always(rd, c) == ~rd.success

\* the first execution is repaired whether or not it failed
NeedsRepair_onSuccess(rd, c) == c = 1

\* line 518: the first execution failed
NeedsRepair(rd, c) == ~rd.success /\ c = 1

\* line 528: the second execution failed
GivesUp(rd, c) == ~rd.success /\ c = 2

\* the whole registry is listed as available
AvailableModules_all(unavail) == RegistryKeys

\* line 387
AvailableModules(unavail) ==
    SelectSeq(RegistryKeys, LAMBDA m : \A i \in 1..Len(unavail) : unavail[i] # m)

\* lines 382-422
DebugPrompt(q, fi, error_data) ==
    [kind |-> "debug", question |-> q, file_info |-> fi,
     modules |-> AvailableModules(error_data.unavailable_modules),
     error |-> error_data.error, traceback |-> error_data.traceback,
     unavailable |-> error_data.unavailable_modules]

\* the repair deletes the unavailable modules from the allow-list itself
StartRepair_prunes ==
    /\ pc = "result"
    /\ NeedsRepair(result_data, call)
    /\ EnterQuery(DebugPrompt(QUESTION, file_info, result_data), 2)
    /\ synthCalls' = synthCalls + 1
    /\ trace' = Append(trace, "synth")
    /\ response' = <<>>
    /\ code' = <<>>
    /\ NoScope
    /\ UNCHANGED <<envVars, reqVars, outVars, unavailable, result_data, execCalls,
                   httpRequests>>
    /\ registry' = SelectSeq(registry, LAMBDA e :
                       \A i \in 1..Len(result_data.unavailable_modules) :
                           result_data.unavailable_modules[i] # e.name)
    /\ UNCHANGED <<running, handlers>>

\* lines 518-522 and 379-424: debug_and_retry builds its prompt and enters
\* query_mistral.  From here on response and code stand for corrected_code,
\* the reply of this call and the program taken from it, not yet bound; the
\* first reply and the first program are not read again.
StartRepair ==
    /\ pc = "result"
    /\ NeedsRepair(result_data, call)
    /\ EnterQuery(DebugPrompt(QUESTION, file_info, result_data), 2)
    /\ synthCalls' = synthCalls + 1
    /\ trace' = Append(trace, "synth")
    /\ response' = <<>>
    /\ code' = <<>>
    /\ NoScope
    /\ UNCHANGED <<envVars, reqVars, outVars, unavailable, result_data, execCalls,
                   httpRequests>>
    /\ UNCHANGED procVars

\* the message of the first failure, as the repair prompt holds it
FinalError_first == prompt.error

\* line 529: result_data["error"] of the second execution
FinalError == result_data.error

\* the second failure is turned into an HTTP error
ReturnError_raises ==
    /\ pc = "result"
    /\ GivesUp(result_data, call)
    /\ answer' = <<>>
    /\ status' = 500
    /\ pc' = "done"
    /\ UNCHANGED <<scopeVars, envVars, reqVars, callVars, execVars, cntVars, prompt, call,
                   response, trace>>
    /\ UNCHANGED procVars

\* lines 528-529
ReturnError ==
    /\ pc = "result"
    /\ GivesUp(result_data, call)
    /\ answer' = FinalError
    /\ status' = 200
    /\ pc' = "done"
    /\ UNCHANGED <<scopeVars, envVars, reqVars, callVars, execVars, cntVars, prompt, call,
                   response, trace>>
    /\ UNCHANGED procVars

\* lines 531-534; an exception of format_result reaches the handler of line 539
ReturnFormatted ==
    /\ pc = "result"
    /\ result_data.success
    /\ answer' = IF FormatRaises(result_data.result) THEN ProcessingError(JsonKeyError)
                 ELSE format_result(result_data.result)
    /\ status' = 200
    /\ pc' = "done"
    /\ UNCHANGED <<scopeVars, envVars, reqVars, callVars, execVars, cntVars, prompt, call,
                   response, trace>>
    /\ UNCHANGED procVars

(***************************************************************************)
(* Specification                                                           *)
(***************************************************************************)
Init ==
    /\ retries \in 0..MaxRetries
    /\ installed \in SUBSET EnvModules
    /\ sys_modules = {}
    /\ pc = "idle"
    /\ file = NoFile
    /\ file_data = FileData(NoFile)
    /\ file_info = FileInfo(NoFile)
    /\ prompt = NoPrompt
    /\ call = 1
    /\ attempt = 0
    /\ posts = 0
    /\ rate_limited = 0
    /\ backend = "none"
    /\ sleeps = <<>>
    /\ response = <<>>
    /\ code = <<>>
    /\ unavailable = <<>>
    /\ result_data = NoResult
    /\ answer = <<>>
    /\ status = 0
    /\ synthCalls = 0
    /\ execCalls = 0
    /\ httpRequests = 0
    /\ trace = <<>>
    /\ required_modules = {}
    /\ modules_dict = {}
    /\ globals_dict = {}
    /\ local_dict = <<>>
    /\ hung = FALSE
    /\ registry = AVAILABLE_MODULES
    /\ running = 0
    /\ handlers = <<>>

Next ==
    \/ \E f \in Files : Submit(f)
    \/ RateLimited
    \/ RequestError
    \/ ParseError
    \/ UnexpectedError
    \/ Exhausted
    \/ \E r \in Replies : Reply(r)
    \/ DirectAnswer
    \/ ExtractProgram
    \/ RepairExtract
    \/ ExecuteLoad
    \/ SetupError
    \/ ProgramRaises
    \/ ProgramExits
    \/ ProgramHangs
    \/ ProgramCompletes
    \/ StartRepair
    \/ ReturnError
    \/ ReturnFormatted

Spec == Init /\ [][Next]_vars

\* query_mistral alone: requests arrive and their first query_mistral call runs
\* to its end.  Each iteration of the loop is taken by the handler itself and
\* requests.post is given a timeout (line 194), so a step that can be taken
\* is taken.
QueryNext ==
    \/ \E f \in Files : Submit(f)
    \/ RateLimited
    \/ RequestError
    \/ ParseError
    \/ UnexpectedError
    \/ Exhausted
    \/ \E r \in Replies : Reply(r)

QuerySpec == Init /\ [][QueryNext]_vars /\ WF_vars(QueryNext)

\* the handler as the server runs it: a step that can be taken is taken.
\* Nothing in execute can end an exec that does not return, so a request
\* whose program does not return has no further step.
FairSpec == Init /\ [][Next]_vars /\ WF_vars(Next)

(***************************************************************************)
(* load_modules_dynamically alone                                          *)
(***************************************************************************)
\* the names execute may pass to load_modules_dynamically: registry names
\* (undotted and dotted), an undotted name outside the registry, a dotted
\* name below a registry name and a dotted name whose package is outside it
ResolveNames == {<<"pandas">>, <<"PIL">>, <<"PIL", "Image">>, <<"math">>, <<"os", "path">>,
                 <<"scipy", "stats">>}

\* the process before a call: which packages are installed and which
\* submodules it has imported
ResolveInit ==
    /\ retries \in {0}
    /\ installed \in SUBSET EnvModules
    /\ sys_modules \in {s \in SUBSET LazySubmodules : \A m \in s : m[1] \in installed}
    /\ pc = "resolve"
    /\ file = NoFile
    /\ file_data = FileData(NoFile)
    /\ file_info = FileInfo(NoFile)
    /\ prompt = NoPrompt
    /\ call = 1
    /\ attempt = 0
    /\ posts = 0
    /\ rate_limited = 0
    /\ backend = "none"
    /\ sleeps = <<>>
    /\ response = <<>>
    /\ code = <<>>
    /\ unavailable = <<>>
    /\ result_data = NoResult
    /\ answer = <<>>
    /\ status = 0
    /\ synthCalls = 0
    /\ execCalls = 0
    /\ httpRequests = 0
    /\ trace = <<>>
    /\ required_modules \in SUBSET ResolveNames
    /\ modules_dict = {}
    /\ globals_dict = {}
    /\ local_dict = <<>>
    /\ hung = FALSE
    /\ registry = AVAILABLE_MODULES
    /\ running = 0
    /\ handlers = <<>>

\* lines 250-282: one call, which returns its two results or raises
Resolve ==
    /\ pc = "resolve"
    /\ LET loaded == load_modules_dynamically(required_modules, installed, sys_modules)
       IN  /\ modules_dict' = loaded.modules
           /\ unavailable' = loaded.unavailable
           /\ pc' = IF loaded.raised THEN "resolve_raised" ELSE "resolved"
    /\ UNCHANGED <<envVars, reqVars, callVars, outVars, cntVars, prompt, call, response,
                   code, result_data, trace, required_modules, globals_dict, local_dict,
                   hung>>
    /\ UNCHANGED procVars

\* line 292: the next call, with another set of names
ResolveNext(required) ==
    /\ pc \in {"resolved", "resolve_raised"}
    /\ required_modules' = required
    /\ modules_dict' = {}
    /\ unavailable' = <<>>
    /\ pc' = "resolve"
    /\ UNCHANGED <<envVars, reqVars, callVars, outVars, cntVars, prompt, call, response,
                   code, result_data, trace, globals_dict, local_dict, hung>>
    /\ UNCHANGED procVars

ResolveStep ==
    \/ Resolve
    \/ \E required \in SUBSET ResolveNames : ResolveNext(required)

ResolveSpec == ResolveInit /\ [][ResolveStep]_vars

(***************************************************************************)
(* format_result alone                                                     *)
(***************************************************************************)
MaxEntries == 2    \* items of a dict handed to format_result

NoneValue == [kind |-> "NoneType", repr |-> <<"None">>]

\* values that are not dicts: int, float, bool, None, str, and an object
\* with a to_dict method (a pandas DataFrame)
FormatScalars == {IntValue(<<"7">>), IntValue(<<"-1">>),
                  [kind |-> "float", repr |-> <<"3.5">>],
                  [kind |-> "bool", repr |-> <<"True">>],
                  NoneValue,
                  StrValue(<<>>), StrValue(<<"42">>), StrValue(<<" ", "x">>),
                  [kind |-> "DataFrame", repr |-> <<"Empty DataFrame">>]}

DictKeys == {"a", "b", "(1, 2)"}

\* dicts of at most MaxEntries items with distinct keys
FormatDicts ==
    {DictValue(es) : es \in
        {s \in SeqsUpTo([key : DictKeys, value : FormatScalars], MaxEntries) :
            \A i \in 1..Len(s) : \A j \in 1..Len(s) : s[i].key = s[j].key => i = j}}

FormatValues == FormatScalars \cup FormatDicts

\* a value is about to be formatted
FormatInit ==
    /\ retries \in {0}
    /\ installed = {}
    /\ sys_modules = {}
    /\ pc = "format"
    /\ file = NoFile
    /\ file_data = FileData(NoFile)
    /\ file_info = FileInfo(NoFile)
    /\ prompt = NoPrompt
    /\ call = 1
    /\ attempt = 0
    /\ posts = 0
    /\ rate_limited = 0
    /\ backend = "none"
    /\ sleeps = <<>>
    /\ response = <<>>
    /\ code = <<>>
    /\ unavailable = <<>>
    /\ result_data \in {Success(v) : v \in FormatValues}
    /\ answer = <<>>
    /\ status = 0
    /\ synthCalls = 0
    /\ execCalls = 0
    /\ httpRequests = 0
    /\ trace = <<>>
    /\ required_modules = {}
    /\ modules_dict = {}
    /\ globals_dict = {}
    /\ local_dict = <<>>
    /\ hung = FALSE
    /\ registry = AVAILABLE_MODULES
    /\ running = 0
    /\ handlers = <<>>

\* line 532: formatted_result = format_result(result_data["result"])
Format ==
    /\ pc = "format"
    /\ IF FormatRaises(result_data.result)
       THEN /\ answer' = <<>>
            /\ pc' = "format_raised"
       ELSE /\ answer' = format_result(result_data.result)
            /\ pc' = "formatted"
    /\ UNCHANGED <<scopeVars, envVars, reqVars, callVars, execVars, cntVars, prompt, call,
                   response, status, trace>>
    /\ UNCHANGED procVars

\* the text format_result returned is handed to format_result
Reformat ==
    /\ pc = "formatted"
    /\ result_data' = Success(StrValue(answer))
    /\ pc' = "format"
    /\ UNCHANGED <<scopeVars, envVars, reqVars, callVars, outVars, cntVars, prompt, call,
                   response, code, unavailable, trace>>
    /\ UNCHANGED procVars

FormatStep ==
    \/ Format
    \/ Reformat

FormatSpec == FormatInit /\ [][FormatStep]_vars

(***************************************************************************)
(* Concurrent requests on the event loop                                   *)
(***************************************************************************)
MaxRequests == 2    \* requests handled at the same time

Requests == 1..MaxRequests

\* everything but the event loop and the handlers' positions
oneVars == <<scopeVars, envVars, reqVars, callVars, execVars, outVars, cntVars, pc,
             prompt, call, response, trace, registry>>

\* the handler of a request that has not arrived
NoHandler == [at |-> "none", call |-> 1, attempt |-> 0, has_file |-> FALSE, suspended |-> FALSE]

\* submit is an async def: it runs on the event loop of the process and keeps
\* it until it awaits or returns
ConcInit ==
    /\ retries \in 0..MaxRetries
    /\ installed = EnvModules
    /\ sys_modules = {}
    /\ pc = "serving"
    /\ file = NoFile
    /\ file_data = FileData(NoFile)
    /\ file_info = FileInfo(NoFile)
    /\ prompt = NoPrompt
    /\ call = 1
    /\ attempt = 0
    /\ posts = 0
    /\ rate_limited = 0
    /\ backend = "none"
    /\ sleeps = <<>>
    /\ response = <<>>
    /\ code = <<>>
    /\ unavailable = <<>>
    /\ result_data = NoResult
    /\ answer = <<>>
    /\ status = 0
    /\ synthCalls = 0
    /\ execCalls = 0
    /\ httpRequests = 0
    /\ trace = <<>>
    /\ required_modules = {}
    /\ modules_dict = {}
    /\ globals_dict = {}
    /\ local_dict = <<>>
    /\ hung = FALSE
    /\ registry = AVAILABLE_MODULES
    /\ running = 0
    /\ handlers = [r \in Requests |-> NoHandler]

\* the handler of r moves to h and keeps the event loop
Holds(r, h) ==
    /\ handlers' = [handlers EXCEPT ![r] = h]
    /\ running' = r
    /\ UNCHANGED oneVars

\* the handler of r moves to h and gives the event loop back
Releases(r, h) ==
    /\ handlers' = [handlers EXCEPT ![r] = h]
    /\ running' = 0
    /\ UNCHANGED oneVars

\* line 504 or 424: query_mistral is entered; with retries = 0 the loop of
\* line 187 has no iteration and line 224 raises
EnterPost(r, h, c) ==
    IF InLoop(0)
    THEN Holds(r, [h EXCEPT !.at = "post", !.call = c, !.attempt = 0])
    ELSE Releases(r, [h EXCEPT !.at = "done", !.call = c])

\* a request reaches the server and its handler is scheduled
Arrive(r, f) ==
    /\ handlers[r].at = "none"
    /\ handlers' = [handlers EXCEPT ![r] = [NoHandler EXCEPT !.at = "queued", !.has_file = f]]
    /\ UNCHANGED <<oneVars, running>>

\* lines 458-468: the event loop starts the handler; await file.read() gives
\* the loop back when the upload is read in the thread pool
StartAwait(r) ==
    /\ running = 0
    /\ handlers[r].at = "queued"
    /\ handlers[r].has_file
    /\ Releases(r, [handlers[r] EXCEPT !.at = "read", !.suspended = TRUE])

\* lines 458-504 without a suspension: no file, or an upload held in memory
StartQuery(r) ==
    /\ running = 0
    /\ handlers[r].at = "queued"
    /\ EnterPost(r, handlers[r], 1)

\* lines 468-504: the read is over and the event loop resumes the handler
Resume(r) ==
    /\ running = 0
    /\ handlers[r].at = "read"
    /\ EnterPost(r, handlers[r], 1)

\* lines 197-222: requests.post failed and the handler calls time.sleep, or
\* raises on the last attempt (lines 213, 219)
PostFails(r) ==
    /\ running = r
    /\ handlers[r].at = "post"
    /\ \/ Holds(r, [handlers[r] EXCEPT !.at = "sleep"])
       \/ /\ LastAttempt(handlers[r].attempt)
          /\ Releases(r, [handlers[r] EXCEPT !.at = "done"])

\* time.sleep returns: the next iteration, or line 224
Wake(r) ==
    /\ running = r
    /\ handlers[r].at = "sleep"
    /\ IF InLoop(handlers[r].attempt + 1)
       THEN Holds(r, [handlers[r] EXCEPT !.at = "post", !.attempt = @ + 1])
       ELSE Releases(r, [handlers[r] EXCEPT !.at = "done"])

\* lines 203-204 and 507-515 or 427-430 and 525: the reply is a direct answer
\* to the first call, or its program is run by exec
PostReplies(r) ==
    /\ running = r
    /\ handlers[r].at = "post"
    /\ \/ /\ handlers[r].call = 1
          /\ Releases(r, [handlers[r] EXCEPT !.at = "done"])
       \/ Holds(r, [handlers[r] EXCEPT !.at = "exec"])

\* lines 336-374 and 517-534: exec is over; the handler returns, or
\* debug_and_retry enters query_mistral after the failure of the first run
ExecEnds(r) ==
    /\ running = r
    /\ handlers[r].at = "exec"
    /\ \/ Releases(r, [handlers[r] EXCEPT !.at = "done"])
       \/ /\ handlers[r].call = 1
          /\ EnterPost(r, handlers[r], 2)

\* the steps the handler of r takes by itself or through the event loop
HandlerStep(r) ==
    \/ StartAwait(r)
    \/ StartQuery(r)
    \/ Resume(r)
    \/ PostFails(r)
    \/ Wake(r)
    \/ PostReplies(r)
    \/ ExecEnds(r)

ConcNext ==
    \E r \in Requests :
        \/ \E f \in BOOLEAN : Arrive(r, f)
        \/ HandlerStep(r)

ConcSpec == ConcInit /\ [][ConcNext]_vars

(***************************************************************************)
(* mistral.py: upload processing, query_mistral and submit                 *)
(***************************************************************************)
MAX_SIZE == 4500000
MISTRAL_RETRIES == 3

NEWLINE == "\n"

\* what the model of the service leaves alone in mistral.py and blackbox.py
otherVars == <<installed, sys_modules, file_data, file_info, prompt, rate_limited,
               unavailable, result_data, scopeVars, hung, procVars>>

NoUpload == [present |-> FALSE, filename |-> <<>>, size |-> 0, zip |-> "valid"]

\* an upload has a name <<stem, extension>>, a length in bytes, and contents
\* that zipfile.ZipFile accepts ("valid") or rejects ("corrupt")
Uploads == {NoUpload} \cup
           {[present |-> TRUE, filename |-> fn, size |-> s, zip |-> z] :
                fn \in {<<"q", "csv">>, <<"a", "zip">>},
                s \in {0, MAX_SIZE, MAX_SIZE + 1},
                z \in {"valid", "corrupt"}}

\* an HTTPException raised, and a value returned
HTTPRaised(code_, detail) == [raised |-> TRUE, status_code |-> code_, detail |-> detail]
Returned == [raised |-> FALSE, status_code |-> 0, detail |-> <<>>]

\* the decimal text of a status code
StatusText(c) == CASE c = 400 -> "400" [] c = 413 -> "413" [] OTHER -> "500"

\* str(e) of an HTTPException
HTTPExceptionStr(e) == <<StatusText(e.status_code), ": ">> \o e.detail

\* lines 92-106: BadZipFile becomes HTTPException(400)
process_zip(u) ==
    IF u.zip = "corrupt" THEN HTTPRaised(400, <<"Invalid ZIP file">>) ELSE Returned

\* lines 74-86: the body of the try block
UploadBody(u) ==
    IF u.size > MAX_SIZE THEN HTTPRaised(413, <<"File exceeds 4.5MB limit">>)
    ELSE IF u.filename[Len(u.filename)] = "zip" THEN process_zip(u)
    ELSE Returned

\* a bad upload is logged and then treated as a plain file
handle_upload_lenient(u) == Returned

\* lines 70-89: except Exception catches the HTTPExceptions of the body and
\* raises HTTPException(500) in their place
handle_upload(u) ==
    IF UploadBody(u).raised
    THEN HTTPRaised(500, <<"File processing error: ">> \o HTTPExceptionStr(UploadBody(u)))
    ELSE Returned

\* the replies of the model in this service
MistralReplies == {<<TEXT>>, <<TEXT, NEWLINE, TEXT>>, <<OPEN, TEXT, CLOSE>>,
                   <<OPEN, IMPORT_PIL_IMAGE, CLOSE>>}

\* text.split('\n')[-1]
RECURSIVE LastLine(_)
LastLine(s) ==
    IF \E i \in 1..Len(s) : s[i] = NEWLINE THEN LastLine(AfterFirst(s, NEWLINE)) ELSE s

\* lines 166-198: what execute returns for a program
MistralResults == {<<"7">>, <<"No result found">>, <<"Execution Error: ", "x">>}

MistralInit ==
    /\ retries = MISTRAL_RETRIES
    /\ installed = EnvModules
    /\ sys_modules = {}
    /\ pc = "idle"
    /\ file = NoUpload
    /\ file_data = FileData(NoFile)
    /\ file_info = FileInfo(NoFile)
    /\ prompt = NoPrompt
    /\ call = 1
    /\ attempt = 0
    /\ posts = 0
    /\ rate_limited = 0
    /\ backend = "none"
    /\ sleeps = <<>>
    /\ response = <<>>
    /\ code = <<>>
    /\ unavailable = <<>>
    /\ result_data = NoResult
    /\ answer = <<>>
    /\ status = 0
    /\ synthCalls = 0
    /\ execCalls = 0
    /\ httpRequests = 0
    /\ trace = <<>>
    /\ required_modules = {}
    /\ modules_dict = {}
    /\ globals_dict = {}
    /\ local_dict = <<>>
    /\ hung = FALSE
    /\ registry = AVAILABLE_MODULES
    /\ running = 0
    /\ handlers = <<>>

\* the response of the request: FastAPI turns an HTTPException into its status
\* and detail, a returned dict into status 200
MistralRespond(s, a) ==
    /\ status' = s
    /\ answer' = a
    /\ pc' = "done"

\* lines 205-221: the upload is processed; query_mistral is entered unless
\* handle_upload raised, which line 235 re-raises
MistralSubmit(u) ==
    /\ pc \in {"idle", "done"}
    /\ file' = u
    /\ attempt' = 0
    /\ posts' = 0
    /\ sleeps' = <<>>
    /\ backend' = "none"
    /\ response' = <<>>
    /\ code' = <<>>
    /\ httpRequests' = 0
    /\ execCalls' = 0
    /\ IF u.present /\ handle_upload(u).raised
       THEN /\ MistralRespond(handle_upload(u).status_code, handle_upload(u).detail)
            /\ synthCalls' = 0
            /\ trace' = <<"upload_error">>
       ELSE /\ pc' = "m_query"
            /\ status' = 0
            /\ answer' = <<>>
            /\ synthCalls' = 1
            /\ trace' = <<"synth">>
    /\ UNCHANGED <<otherVars, retries, call>>

\* one requests.post of the loop of line 128
MistralPost(event) ==
    /\ pc = "m_query"
    /\ attempt < retries
    /\ posts' = posts + 1
    /\ httpRequests' = httpRequests + 1
    /\ backend' = event
    /\ trace' = Append(trace, event)

\* lines 133-137: status 429
MistralRateLimited ==
    /\ MistralPost("rate_limited")
    /\ sleeps' = Append(sleeps, 2 ^ attempt)
    /\ attempt' = attempt + 1
    /\ UNCHANGED <<otherVars, retries, call, file, response, code, answer, status,
                   synthCalls, execCalls, pc>>

\* lines 138-139 and 237-239: another error status is re-raised as the
\* HTTPError of requests, which submit's except Exception answers
MistralHTTPError ==
    /\ MistralPost("http_error")
    /\ MistralRespond(200, <<"System Error: ", "500 Server Error">>)
    /\ UNCHANGED <<otherVars, retries, call, file, response, code, sleeps, attempt,
                   synthCalls, execCalls>>

\* lines 140-141: any other exception is logged and the loop goes on
MistralRequestError ==
    /\ MistralPost("request_error")
    /\ attempt' = attempt + 1
    /\ UNCHANGED <<otherVars, retries, call, file, response, code, answer, status,
                   sleeps, synthCalls, execCalls, pc>>

\* line 143 and 235-236
MistralExhausted ==
    /\ pc = "m_query"
    /\ attempt >= retries
    /\ MistralRespond(500, <<"Mistral API unavailable">>)
    /\ backend' = "exhausted"
    /\ trace' = Append(trace, "exhausted")
    /\ UNCHANGED <<otherVars, retries, call, file, response, code, sleeps, attempt,
                   posts, httpRequests, synthCalls, execCalls>>

\* lines 130-132: the content of the reply is returned
MistralReply(r) ==
    /\ MistralPost("ok")
    /\ response' = r
    /\ pc' = "m_reply"
    /\ UNCHANGED <<otherVars, retries, call, file, code, answer, status, sleeps,
                   attempt, synthCalls, execCalls>>

\* lines 223-224
MistralDirectAnswer ==
    /\ pc = "m_reply"
    /\ ~HasFence(response)
    /\ MistralRespond(200, LastLine(response))
    /\ UNCHANGED <<otherVars, retries, call, file, response, code, sleeps, attempt,
                   posts, httpRequests, backend, trace, synthCalls, execCalls>>

\* lines 158-161: an import outside ALLOWED_MODULES
DisallowedImport(c) == \E i \in 1..Len(c) : c[i] \in ImportTokens

\* lines 227-228 and 235-236: validate_code raises HTTPException(400)
MistralRejected ==
    /\ pc = "m_reply"
    /\ HasFence(response)
    /\ DisallowedImport(ExtractCode(response))
    /\ code' = ExtractCode(response)
    /\ MistralRespond(400, <<"Disallowed import: ", "PIL">>)
    /\ UNCHANGED <<otherVars, retries, call, file, response, sleeps, attempt,
                   posts, httpRequests, backend, trace, synthCalls, execCalls>>

\* lines 227-233: the program is run and the last line of what execute
\* returns is the answer
MistralExecute(result) ==
    /\ pc = "m_reply"
    /\ HasFence(response)
    /\ ~DisallowedImport(ExtractCode(response))
    /\ code' = ExtractCode(response)
    /\ execCalls' = execCalls + 1
    /\ MistralRespond(200, LastLine(result))
    /\ UNCHANGED <<otherVars, retries, call, file, response, sleeps, attempt,
                   posts, httpRequests, backend, trace, synthCalls>>

MistralNext ==
    \/ \E u \in Uploads : MistralSubmit(u)
    \/ MistralRateLimited
    \/ MistralHTTPError
    \/ MistralRequestError
    \/ MistralExhausted
    \/ \E r \in MistralReplies : MistralReply(r)
    \/ MistralDirectAnswer
    \/ MistralRejected
    \/ \E result \in MistralResults : MistralExecute(result)

MistralSpec == MistralInit /\ [][MistralNext]_vars

(***************************************************************************)
(* blackbox.py: query_mistral, execute, debug_and_retry and submit         *)
(***************************************************************************)
BLACKBOX_RETRIES == 3

\* the replies of the model in this service
BlackboxReplies == {<<TEXT>>, <<OPEN, TEXT, CLOSE>>}

EXECUTION_ERROR == "Execution Error: "

\* lines 146-214: what execute returns: the text of the value the program left
\* or a fixed text when it completed, the text of line 208, 211 or 214 when an
\* exception was raised
BlackboxResults ==
    {[raised |-> FALSE, text |-> <<"7">>],
     [raised |-> FALSE, text |-> <<"Execution successful but no result was returned.">>],
     [raised |-> FALSE, text |-> <<EXECUTION_ERROR, "none">>],
     [raised |-> TRUE,  text |-> <<EXECUTION_ERROR, "x">>]}

\* result.startswith("Execution Error")
StartsWithError(text) == text # <<>> /\ Head(text) = EXECUTION_ERROR

BlackboxInit ==
    /\ retries = BLACKBOX_RETRIES
    /\ installed = EnvModules
    /\ sys_modules = {}
    /\ pc = "idle"
    /\ file = NoFile
    /\ file_data = FileData(NoFile)
    /\ file_info = FileInfo(NoFile)
    /\ prompt = NoPrompt
    /\ call = 1
    /\ attempt = 0
    /\ posts = 0
    /\ rate_limited = 0
    /\ backend = "none"
    /\ sleeps = <<>>
    /\ response = <<>>
    /\ code = <<>>
    /\ unavailable = <<>>
    /\ result_data = NoResult
    /\ answer = <<>>
    /\ status = 0
    /\ synthCalls = 0
    /\ execCalls = 0
    /\ httpRequests = 0
    /\ trace = <<>>
    /\ required_modules = {}
    /\ modules_dict = {}
    /\ globals_dict = {}
    /\ local_dict = <<>>
    /\ hung = FALSE
    /\ registry = AVAILABLE_MODULES
    /\ running = 0
    /\ handlers = <<>>

\* the response of the request: FastAPI turns an HTTPException into its status
\* and detail, a returned dict into status 200
BlackboxRespond(s, a) ==
    /\ status' = s
    /\ answer' = a
    /\ pc' = "done"

\* a call of query_mistral starts: line 280, or line 231 with a new CodeGenerator
BlackboxEnterQuery(c) ==
    /\ call' = c
    /\ attempt' = 0
    /\ posts' = 0
    /\ sleeps' = <<>>
    /\ backend' = "none"
    /\ response' = <<>>
    /\ pc' = "b_query"

\* lines 244-280
BlackboxSubmit(f) ==
    /\ pc \in {"idle", "done"}
    /\ file' = f
    /\ BlackboxEnterQuery(1)
    /\ code' = <<>>
    /\ status' = 0
    /\ answer' = <<>>
    /\ synthCalls' = 1
    /\ execCalls' = 0
    /\ httpRequests' = 0
    /\ trace' = <<"synth">>
    /\ UNCHANGED <<otherVars, retries>>

\* one requests.post of the loop of line 123
BlackboxPost(event) ==
    /\ pc = "b_query"
    /\ attempt < retries
    /\ posts' = posts + 1
    /\ httpRequests' = httpRequests + 1
    /\ backend' = event
    /\ trace' = Append(trace, event)

\* lines 130-135: status 429
BlackboxRateLimited ==
    /\ BlackboxPost("rate_limited")
    /\ sleeps' = Append(sleeps, 2 ^ attempt)
    /\ attempt' = attempt + 1
    /\ UNCHANGED <<otherVars, retries, call, file, response, code, answer, status,
                   synthCalls, execCalls, pc>>

\* lines 136-137 and 312-314: another error status is re-raised as the
\* HTTPError of requests, which is not an HTTPException: submit's except
\* Exception returns an answer
BlackboxHTTPError ==
    /\ BlackboxPost("http_error")
    /\ BlackboxRespond(200, <<"System Error: ", "500 Server Error">>)
    /\ UNCHANGED <<otherVars, retries, call, file, response, code, sleeps, attempt,
                   synthCalls, execCalls>>

\* lines 138-139: any other exception is logged and the loop goes on
BlackboxRequestError ==
    /\ BlackboxPost("request_error")
    /\ attempt' = attempt + 1
    /\ UNCHANGED <<otherVars, retries, call, file, response, code, answer, status,
                   sleeps, synthCalls, execCalls, pc>>

\* lines 141-142 and 309-311
BlackboxExhausted ==
    /\ pc = "b_query"
    /\ attempt >= retries
    /\ BlackboxRespond(500, <<"Mistral API unavailable">>)
    /\ backend' = "exhausted"
    /\ trace' = Append(trace, "exhausted")
    /\ UNCHANGED <<otherVars, retries, call, file, response, code, sleeps, attempt,
                   posts, httpRequests, synthCalls, execCalls>>

\* lines 126-129: the content of the reply is returned
BlackboxReply(r) ==
    /\ BlackboxPost("ok")
    /\ response' = r
    /\ pc' = "b_reply"
    /\ UNCHANGED <<otherVars, retries, call, file, code, answer, status, sleeps,
                   attempt, synthCalls, execCalls>>

\* lines 282-284
BlackboxDirectAnswer ==
    /\ pc = "b_reply" /\ call = 1
    /\ ~HasFence(response)
    /\ BlackboxRespond(200, response)
    /\ UNCHANGED <<otherVars, retries, call, file, response, code, sleeps, attempt,
                   posts, httpRequests, backend, trace, synthCalls, execCalls>>

\* line 287, and lines 234-237 for the reply of the repair call
BlackboxCode(r, c) == IF c = 1 \/ HasFence(r) THEN ExtractCode(r) ELSE r

\* lines 290-297 and 231: the first run returned a text that starts with
\* "Execution Error", and debug_and_retry enters query_mistral
BlackboxRepair(result) ==
    /\ pc = "b_reply" /\ call = 1
    /\ HasFence(response)
    /\ StartsWithError(result.text)
    /\ code' = BlackboxCode(response, call)
    /\ execCalls' = execCalls + 1
    /\ synthCalls' = synthCalls + 1
    /\ BlackboxEnterQuery(2)
    /\ trace' = trace \o <<IF result.raised THEN "raised" ELSE "completed", "synth">>
    /\ UNCHANGED <<otherVars, retries, file, answer, status, httpRequests>>

\* lines 290-307: the text execute returned is the answer: of the first run
\* when it does not start with "Execution Error", of the second run always
BlackboxExecute(result) ==
    /\ pc = "b_reply"
    /\ call = 1 => (HasFence(response) /\ ~StartsWithError(result.text))
    /\ code' = BlackboxCode(response, call)
    /\ execCalls' = execCalls + 1
    /\ BlackboxRespond(200, result.text)
    /\ trace' = Append(trace, IF result.raised THEN "raised" ELSE "completed")
    /\ UNCHANGED <<otherVars, retries, call, file, response, sleeps, attempt,
                   posts, httpRequests, backend, synthCalls>>

BlackboxNext ==
    \/ \E f \in Files : BlackboxSubmit(f)
    \/ BlackboxRateLimited
    \/ BlackboxHTTPError
    \/ BlackboxRequestError
    \/ BlackboxExhausted
    \/ \E r \in BlackboxReplies : BlackboxReply(r)
    \/ BlackboxDirectAnswer
    \/ \E result \in BlackboxResults : BlackboxRepair(result)
    \/ \E result \in BlackboxResults : BlackboxExecute(result)

BlackboxSpec == BlackboxInit /\ [][BlackboxNext]_vars

(***************************************************************************)
(* The namespace a program builds, and the fallback of execute             *)
(***************************************************************************)
MaxStatements == 3    \* assignment statements in a program

\* an assignment statement binds a name to a value
Statements == {[name |-> n, value |-> IntValue(<<v>>)] :
                   n \in {"a", "b", "_tmp"}, v \in {"1", "2"}}

Programs == SeqsUpTo(Statements, MaxStatements)

\* re-assignment removes the binding and inserts it again at the end
Bind_moves(ns, st) ==
    SelectSeq(ns, LAMBDA b : b.name # st.name) \o <<st>>

\* exec stores into local_dict, a dict: a new name is inserted at the end, a
\* name that is bound keeps its place and gets the new value
Bind(ns, st) ==
    IF \E i \in 1..Len(ns) : ns[i].name = st.name
    THEN [i \in 1..Len(ns) |-> IF ns[i].name = st.name THEN st ELSE ns[i]]
    ELSE Append(ns, st)

\* blackbox.py lines 197-204: the text of the value picked
BlackboxSelectResult(ns) ==
    LET named == {i \in 1..Len(ns) : ns[i].name = "result"}
        vars_list == {i \in 1..Len(ns) : ~Private(ns[i].name)}
    IN  IF named # {} THEN ns[CHOOSE i \in named : TRUE].value.repr
        ELSE IF vars_list # {}
        THEN ns[CHOOSE i \in vars_list : \A j \in vars_list : j <= i].value.repr
        ELSE SENTINEL.repr

\* a program of assignment statements is about to run; response keeps the
\* whole program, code the statements still to run
FallbackInit ==
    /\ retries \in {0}
    /\ installed = EnvModules
    /\ sys_modules = {}
    /\ pc = "run"
    /\ file = NoFile
    /\ file_data = FileData(NoFile)
    /\ file_info = FileInfo(NoFile)
    /\ prompt = NoPrompt
    /\ call = 1
    /\ attempt = 0
    /\ posts = 0
    /\ rate_limited = 0
    /\ backend = "none"
    /\ sleeps = <<>>
    /\ response \in Programs
    /\ code = response
    /\ unavailable = <<>>
    /\ result_data = NoResult
    /\ answer = <<>>
    /\ status = 0
    /\ synthCalls = 0
    /\ execCalls = 0
    /\ httpRequests = 0
    /\ trace = <<>>
    /\ required_modules = {}
    /\ modules_dict = {}
    /\ globals_dict = {}
    /\ local_dict = <<>>
    /\ hung = FALSE
    /\ registry = AVAILABLE_MODULES
    /\ running = 0
    /\ handlers = <<>>

\* exec runs the next statement
Assign ==
    /\ pc = "run"
    /\ code # <<>>
    /\ local_dict' = Bind(local_dict, Head(code))
    /\ code' = Tail(code)
    /\ UNCHANGED <<envVars, reqVars, callVars, outVars, cntVars, procVars, pc, prompt,
                   call, response, unavailable, result_data, trace, required_modules,
                   modules_dict, globals_dict, hung>>

\* blackbox1.py lines 349-365: the program is over and execute returns
FallbackSelect ==
    /\ pc = "run"
    /\ code = <<>>
    /\ result_data' = SelectResult(local_dict)
    /\ pc' = "selected"
    /\ UNCHANGED <<envVars, reqVars, callVars, outVars, cntVars, procVars, scopeVars,
                   prompt, call, response, code, unavailable, trace>>

\* blackbox.py lines 197-204: the program is over and execute returns
BlackboxFallbackSelect ==
    /\ pc = "run"
    /\ code = <<>>
    /\ answer' = BlackboxSelectResult(local_dict)
    /\ pc' = "selected_text"
    /\ UNCHANGED <<envVars, reqVars, callVars, execVars, cntVars, procVars, scopeVars,
                   prompt, call, response, trace, status>>

FallbackNext ==
    \/ Assign
    \/ FallbackSelect
    \/ BlackboxFallbackSelect

FallbackSpec == FallbackInit /\ [][FallbackNext]_vars

(***************************************************************************)
(* Properties                                                              *)
(***************************************************************************)
Last(s) == s[Len(s)]

\* events with which execute returns a Failure
FailureEvents == {"raised", "setup_failure"}

\* events that end an execute call
ExecuteEnds == FailureEvents \cup {"completed", "exited", "load_error"}

NFailures == Cardinality({i \in 1..Len(trace) : trace[i] \in FailureEvents})

\* C1: when the first and the repaired program both fail, execute has been
\* called exactly twice and query_mistral exactly twice, nothing further is
\* started, and the answer returned with status 200 is the error message of
\* the second failure.
C1_TwoFailures ==
    /\ NFailures <= 2
    /\ NFailures = 2 =>
           /\ execCalls = 2
           /\ synthCalls = 2
           /\ Count(trace, "synth") = 2
           /\ Count(trace, "execute") = 2
           /\ pc \in {"result", "done"}
           /\ Last(trace) \in FailureEvents
           /\ pc = "done" => status = 200 /\ answer = result_data.error

C1_Witness ==
    /\ pc = "done"
    /\ NFailures = 2
    /\ answer = result_data.error
    /\ answer # prompt.error

\* C2 (as claimed): whenever the program raises, execute returns a Failure
\* with a non-empty error and traceback and the unavailable list, and the
\* request then has exactly one debug_and_retry call and one more execute call.
C2_Claimed ==
    /\ (trace # <<>> /\ Last(trace) \in {"raised", "exited"}) =>
           /\ pc = "result"
           /\ ~result_data.success
           /\ result_data.error # <<>>
           /\ result_data.traceback # <<>>
           /\ result_data.unavailable_modules = unavailable
    /\ (pc \in {"done", "escaped"} /\ Len(trace) >= 4 /\ trace[4] \in {"raised", "exited"}) =>
           /\ synthCalls = 2
           /\ execCalls = 2

\* a is r without its leading and trailing white space
IsTrimOf(a, r) ==
    /\ a # <<>> => a[1] # SPACE /\ a[Len(a)] # SPACE
    /\ \E i \in 0..Len(r) :
           /\ i + Len(a) <= Len(r)
           /\ \A k \in 1..Len(a) : r[i + k] = a[k]
           /\ \A k \in 1..Len(r) : (k <= i \/ k > i + Len(a)) => r[k] = SPACE

\* C3: in a request without a file, a first reply without a code block is
\* answered at once with the trimmed reply and status 200, and execute has
\* not been called.
C3_DirectAnswer ==
    [][(file = NoFile /\ pc = "reply" /\ call = 1 /\ ~HasFence(response)) =>
           /\ pc' = "done"
           /\ status' = 200
           /\ IsTrimOf(answer', response)
           /\ execCalls = 0 /\ execCalls' = 0
           /\ trace' = <<"synth", "reply">>]_vars

C3_Witness ==
    /\ pc = "done"
    /\ file = NoFile
    /\ trace = <<"synth", "reply">>
    /\ ~HasFence(response)
    /\ status = 200
    /\ answer # response
    /\ answer # <<>>

\* C4 (as claimed): execute is never entered with a program taken from a
\* reply that has no code fence.
C4_Claimed ==
    (pc = "scope" \/ (trace # <<>> /\ Last(trace) = "execute")) => HasFence(response)

\* C5: a request makes at most two query_mistral calls, at most two execute
\* calls and at most 2 x retries requests to the backend.
C5_Bounds ==
    /\ synthCalls <= 2
    /\ execCalls <= 2
    /\ httpRequests <= 2 * retries

C5_Witness ==
    /\ pc = "done"
    /\ synthCalls = 2
    /\ execCalls = 2
    /\ retries >= 2
    /\ httpRequests = 2 * retries

\* C6: the steps of a request are strictly sequential: an execute call starts
\* right after the return of the query_mistral call that produced its
\* program, the second query_mistral call starts right after the first
\* execute call returned a Failure, and every call ends before the next starts.
C6_Sequential ==
    /\ \A i \in 1..Len(trace) :
           /\ trace[i] = "execute" => i > 1 /\ trace[i - 1] = "reply"
           /\ trace[i] = "synth" => i = 1 \/ (i = 5 /\ trace[4] \in FailureEvents)
           /\ (trace[i] = "synth" /\ i < Len(trace)) =>
                  trace[i + 1] \in {"reply", "backend_error"}
           /\ (trace[i] = "execute" /\ i < Len(trace)) => trace[i + 1] \in ExecuteEnds
           /\ trace[i] = "reply" => i > 1 /\ trace[i - 1] = "synth"
           /\ trace[i] \in ExecuteEnds => i > 1 /\ trace[i - 1] = "execute"
    /\ pc = "query" <=> (trace # <<>> /\ Last(trace) = "synth")
    /\ pc = "scope" <=> (trace # <<>> /\ Last(trace) = "execute")

C6_Witness ==
    /\ pc = "done"
    /\ trace = <<"synth", "reply", "execute", "raised",
                 "synth", "reply", "execute", "completed">>

C8_Backoff ==
    [][(pc = "query" /\ posts' = posts + 1
            /\ backend' \in {"rate_limited", "request_error"}) =>
           /\ posts < retries
           /\ Len(sleeps') = posts + 1
           /\ sleeps'[posts + 1] = RETRY_DELAY * (2 ^ posts)
           /\ posts > 0 => sleeps'[posts + 1] = 2 * sleeps'[posts]]_vars

C8_Witness ==
    /\ pc = "query"
    /\ sleeps = <<RETRY_DELAY, 2 * RETRY_DELAY, 4 * RETRY_DELAY>>
    /\ backend = "request_error"
    /\ rate_limited = 2

\* C9: with retries >= 3, after 429 on the first two requests the call makes a
\* third one, and when that one is answered 200 the call returns its reply
\* after three requests having slept RETRY_DELAY + 2 x RETRY_DELAY in total.
C9_RateLimitedTwice ==
    /\ (posts = 2 /\ rate_limited = 2 /\ retries >= 3) => (pc = "query" /\ attempt = 2)
    /\ (posts = 3 /\ rate_limited = 2 /\ backend = "ok") =>
           /\ pc = "reply"
           /\ retries >= 3
           /\ Last(trace) = "reply"
           /\ Len(sleeps) = 2
           /\ Sum(sleeps) = RETRY_DELAY + 2 * RETRY_DELAY

C9_Witness ==
    /\ pc = "reply"
    /\ posts = 3
    /\ rate_limited = 2
    /\ backend = "ok"
    /\ Sum(sleeps) = 3 * RETRY_DELAY

\* C10: once a query_mistral call has failed against the backend, the request
\* is over with a 5xx response: no call follows and no answer is returned.
C10_BackendUnavailable ==
    \A i \in 1..Len(trace) :
        trace[i] = "backend_error" =>
            /\ i = Len(trace)
            /\ pc = "done"
            /\ status \in 500..599
            /\ answer = <<>>

C10_Witness ==
    /\ pc = "done"
    /\ call = 2
    /\ Last(trace) = "backend_error"
    /\ status = 503
    /\ execCalls = 1

\* the texts with which an answer that reports an error begins (lines 343,
\* 371 and 543)
ErrorPrefixes == {"Execution Error: ", "System Error: ", "Error: "}

C12_ResultSelection ==
    (pc = "result" /\ Last(trace) = "completed") =>
        LET at(n) == {i \in 1..Len(local_dict) : local_dict[i].name = n}
            public == {i \in 1..Len(local_dict) : local_dict[i].name \notin {"_tmp"}}
        IN  /\ result_data.success
            /\ at("result") # {} =>
                   \E i \in at("result") : result_data.result = local_dict[i].value
            /\ (at("result") = {} /\ public # {}) =>
                   \E i \in public :
                       /\ \A j \in public : j <= i
                       /\ result_data.result = local_dict[i].value
            /\ (at("result") = {} /\ public = {}) => result_data.result = SENTINEL

C12_Witness ==
    /\ pc = "result"
    /\ Last(trace) = "completed"
    /\ Len(local_dict) = 3
    /\ local_dict[1].name = "PIL"
    /\ local_dict[2].name = "total"
    /\ local_dict[3].name = "_tmp"
    /\ result_data = Success(IntValue(<<"7">>))

C14_Claimed == (pc = "scope") ~> (pc # "scope" /\ ~hung)

\* C15 (as claimed): once the execution scope is built, every alias that
\* load_modules_dynamically resolved for the program is a name bound in it.
C15_Claimed == globals_dict # {} => modules_dict \subseteq globals_dict

\* C16 (as claimed): the execution scope binds nothing but the aliases that
\* load_modules_dynamically resolved for the program and file_data.
C16_Claimed == globals_dict \subseteq modules_dict \cup {"file_data"}

\* C17 (as claimed): load_modules_dynamically never raises, so no execute call
\* ends with an exception of the module loading; a required module that cannot
\* be imported is in the unavailable list and execute goes on.
C17_Claimed ==
    /\ Count(trace, "load_error") = 0
    /\ pc = "scope" =>
           \A m \in required_modules :
               ~ImportOk(m[1], installed) => \E i \in 1..Len(unavailable) : unavailable[i] = m

\* the alias of a registry name
AliasOf(name) ==
    AVAILABLE_MODULES[CHOOSE i \in 1..Len(AVAILABLE_MODULES) : AVAILABLE_MODULES[i].name = name].alias

\* C18 (as claimed): for two requested registry names a and b, a available
\* (its package is installed and its attributes exist) and b missing (its
\* package is not installed), load_modules_dynamically returns, with exactly
\* a's handle as available and exactly b as unavailable.
C18_Claimed ==
    \A a \in RegistryNames, b \in RegistryNames :
        (/\ pc \in {"resolved", "resolve_raised"}
         /\ required_modules = {a, b}
         /\ ImportOk(a[1], installed) /\ AttrOk(a, sys_modules)
         /\ ~ImportOk(b[1], installed)) =>
            /\ pc = "resolved"
            /\ modules_dict = {AliasOf(a)}
            /\ {unavailable[i] : i \in 1..Len(unavailable)} = {b}

\* C19: from the start of debug_and_retry's query_mistral call to the second
\* execution, the prompt is the debug prompt: it holds the error message and
\* the traceback of the failure and every name of the failure's unavailable
\* list, and no name of that list is in the prompt's list of available
\* modules, which holds every other registry name.
C19_RepairPrompt ==
    (call = 2 /\ pc \in {"query", "reply", "execute"}) =>
        LET failed == result_data.unavailable_modules
            listed(s) == {s[i] : i \in 1..Len(s)}
        IN  /\ prompt.kind = "debug"
            /\ ~result_data.success
            /\ prompt.error = result_data.error
            /\ prompt.traceback = result_data.traceback
            /\ listed(failed) \subseteq listed(prompt.unavailable)
            /\ listed(failed) \cap listed(prompt.modules) = {}
            /\ listed(prompt.modules) = RegistryNames \ listed(failed)

C19_Witness ==
    /\ call = 2
    /\ pc = "query"
    /\ result_data.unavailable_modules = <<<<"PIL">>, <<"PIL", "Image">>>>
    /\ prompt.unavailable = result_data.unavailable_modules
    /\ prompt.error # <<>>
    /\ Len(prompt.modules) = Len(AVAILABLE_MODULES) - 2

\* C20: format_result is idempotent: when the text it returned is formatted
\* again, the same text comes back.
C20_Idempotent ==
    [][(pc = "format" /\ result_data.result = StrValue(answer)) => answer' = answer]_vars

C20_Witness ==
    /\ pc = "formatted"
    /\ result_data.result = StrValue(answer)
    /\ answer = <<"{", QUOTE, "a", QUOTE, ": ", "7", ", ", QUOTE, "b", QUOTE, ": ", QUOTE,
                  "42", QUOTE, "}">>

\* C21 (as claimed): format_result returns a text for every value and never
\* raises.
C21_Claimed == pc # "format_raised"

\* t holds the item of key k and value v as json.dumps writes it
HasJsonItem(t, k, v) ==
    \E j \in 1..Len(t) :
        /\ j + 3 + Len(JsonValue(v)) <= Len(t)
        /\ SubSeq(t, j, j + 3) = <<QUOTE, k, QUOTE, ": ">>
        /\ SubSeq(t, j + 4, j + 3 + Len(JsonValue(v))) = JsonValue(v)

C23_Claimed ==
    \A r \in Requests, s \in Requests :
        (/\ r # s
         /\ handlers[r].at \in {"sleep", "post", "exec"}
         /\ handlers[s].at \notin {"none", "done"}) => ENABLED HandlerStep(s)

\* C24 (as claimed): requests share no state that one writes and another
\* reads, so what a request does when the modules of its first program are
\* loaded is what a process that has served no request would do: it depends
\* on the request's program and on the installation only.
C24_Claimed ==
    [][(pc = "execute" /\ execCalls = 0) =>
          LET fresh == load_modules_dynamically(get_required_modules(code), installed, {})
          IN  /\ (pc' = "done") <=> fresh.raised
              /\ modules_dict' = fresh.modules
              /\ unavailable' = fresh.unavailable]_vars

\* C25: the allow-list AVAILABLE_MODULES of the process has exactly its initial
\* contents after any sequence of requests, whatever their resolutions
\* reported unavailable and whatever their repair prompts left out.
C25_RegistryFixed == registry = AVAILABLE_MODULES

C25_Witness ==
    /\ pc = "done"
    /\ call = 2
    /\ result_data.unavailable_modules # <<>>
    /\ Len(prompt.modules) < Len(AVAILABLE_MODULES)
    /\ registry = AVAILABLE_MODULES

\* C27 (as claimed): for every request with an uploaded file, a file of zero
\* bytes included, the prompt of the first query_mistral call holds the
\* question, the file's name, type, size and leading bytes, and the names of
\* the permitted modules.
C27_Claimed ==
    (file.present /\ call = 1 /\ pc = "query") =>
        /\ prompt.kind = "enhanced"
        /\ prompt.question = QUESTION
        /\ prompt.file_info = FileInfo(file)
        /\ prompt.modules = RegistryKeys

\* C28 (as claimed): when the first program failed and the repaired program
\* succeeded, the answer returned is format_result of the second run's value,
\* with status 200, and it is not the first failure's message.
C28_Claimed ==
    (pc = "done" /\ call = 2 /\ result_data.success) =>
        /\ answer = format_result(result_data.result)
        /\ status = 200
        /\ answer # prompt.error

\* a malformed upload of mistral.py: over the size limit, or named as a ZIP
\* archive with contents that are not one
Malformed(u) ==
    u.present /\ (u.size > MAX_SIZE \/ (u.filename[Len(u.filename)] = "zip" /\ u.zip = "corrupt"))

\* C26: in mistral.py a malformed upload is answered at once with an error
\* status, and no query_mistral call and no request to the backend is made for
\* that request.
C26_InputError ==
    (pc # "idle" /\ Malformed(file)) =>
        /\ pc = "done"
        /\ status >= 400
        /\ synthCalls = 0
        /\ httpRequests = 0
        /\ trace = <<"upload_error">>

C26_Witness ==
    /\ pc = "done"
    /\ file.present /\ file.filename = <<"a", "zip">> /\ file.zip = "corrupt"
    /\ file.size <= MAX_SIZE
    /\ status = 500
    /\ httpRequests = 0

\* C29 (as claimed): in blackbox.py every request whose query_mistral call
\* fails, by using up its attempts or by an HTTP error status other than 429,
\* is answered with a 5xx status and never with status 200.
C29_Claimed ==
    (pc = "done" /\ backend \in {"exhausted", "http_error"}) => status \in 500..599

\* C30 (as claimed): in blackbox.py's query_mistral an attempt k that fails
\* with an error other than an HTTP status is followed by a sleep of 2^k
\* seconds, as a 429 is.
C30_Claimed == [][BlackboxRequestError => sleeps' = Append(sleeps, 2 ^ attempt)]_vars

\* C31: a query_mistral call whose final attempt fails on the structure of the
\* reply (as it does when every attempt fails so) raises HTTPException 500
\* after exactly retries requests and exactly retries - 1 sleeps: each earlier
\* attempt slept its backoff and no sleep follows the final attempt.
C31_ParseFailure ==
    (pc = "done" /\ backend = "parse_error") =>
        /\ status = 500
        /\ posts = retries
        /\ attempt = retries - 1
        /\ Len(sleeps) = retries - 1
        /\ \A k \in 1..Len(sleeps) : sleeps[k] = RETRY_DELAY * (2 ^ (k - 1))

C31_Witness ==
    /\ pc = "done"
    /\ backend = "parse_error"
    /\ retries = 3
    /\ posts = 3
    /\ rate_limited = 0
    /\ sleeps = <<RETRY_DELAY, 2 * RETRY_DELAY>>
    /\ status = 500

\* C32: a query_mistral call in which every attempt was answered 429 ends with
\* HTTPException 503 after exactly retries requests and exactly retries
\* sleeps, one after each attempt, the last included, that add up to
\* RETRY_DELAY x (2^retries - 1).
C32_AllRateLimited ==
    /\ (pc = "query" /\ rate_limited = posts) =>
           /\ posts = attempt
           /\ Len(sleeps) = posts
    /\ (pc = "done" /\ backend = "rate_limited" /\ rate_limited = posts) =>
           /\ status = 503
           /\ posts = retries
           /\ Len(sleeps) = retries
           /\ Sum(sleeps) = RETRY_DELAY * (2 ^ retries - 1)

C32_Witness ==
    /\ pc = "done"
    /\ backend = "rate_limited"
    /\ retries = 3
    /\ rate_limited = 3
    /\ posts = 3
    /\ sleeps = <<RETRY_DELAY, 2 * RETRY_DELAY, 4 * RETRY_DELAY>>
    /\ status = 503

\* C33 (as claimed): in blackbox.py a second query_mistral call and a second
\* execution happen only after the first run of the program raised an
\* exception; a program that completed, whatever value it left, causes neither.
C33_Claimed ==
    (synthCalls = 2 \/ execCalls = 2) =>
        \E i \in 1..Len(trace) - 1 : trace[i] = "raised" /\ trace[i + 1] = "synth"

\* C34 (as claimed): when the first run of the program succeeds, the request
\* makes exactly one query_mistral call and one execute call, debug_and_retry
\* is not called, and the answer is format_result of that run's value.
C34_Claimed ==
    /\ (call = 1 /\ result_data.success) =>
           /\ synthCalls = 1
           /\ execCalls = 1
           /\ Count(trace, "synth") = 1
           /\ Count(trace, "execute") = 1
    /\ (pc = "done" /\ call = 1 /\ result_data.success) =>
           /\ status = 200
           /\ answer = format_result(result_data.result)

\* a handle of the returned mapping stands for the name: that of the registry
\* entry of the name or of a package the name lies under, or the name itself
HandleCovers(n, modules) ==
    \/ \E i \in 1..Len(AVAILABLE_MODULES) :
           /\ AVAILABLE_MODULES[i].name = n \/ IsUnder(n, AVAILABLE_MODULES[i].name)
           /\ AVAILABLE_MODULES[i].alias \in modules
    \/ Len(n) = 1 /\ n[1] \in modules

\* the returned list names the module or a package it lies under
ListedUnavailable(n, unavail) ==
    \E k \in 1..Len(unavail) : unavail[k] = n \/ IsUnder(n, unavail[k])

\* C35 (as claimed): when load_modules_dynamically has returned, every
\* requested name is covered by a handle of the returned mapping or named by
\* the returned unavailable list; none is dropped from both.
C35_Claimed ==
    pc = "resolved" =>
        \A n \in required_modules :
            HandleCovers(n, modules_dict) \/ ListedUnavailable(n, unavailable)

\* C36: what execute returns is a tagged union: success is a boolean; a
\* Success has a result and no error, traceback or unavailable list; a Failure
\* has an error, a traceback and the unavailable list of the call and no
\* result.  submit reads the result of a Success only (for the answer) and the
\* error of a Failure only (for the answer or for the repair prompt).
C36_TaggedUnion ==
    /\ [](pc = "result" =>
              /\ result_data.success \in BOOLEAN
              /\ result_data.success =>
                     /\ result_data.result # NoValue
                     /\ result_data.error = <<>>
                     /\ result_data.traceback = <<>>
                     /\ result_data.unavailable_modules = <<>>
              /\ ~result_data.success =>
                     /\ result_data.result = NoValue
                     /\ result_data.error # <<>>
                     /\ result_data.traceback # <<>>
                     /\ result_data.unavailable_modules = unavailable)
    /\ [][(pc = "result" /\ pc' = "done") =>
              IF result_data.success
              THEN answer' \in {format_result(result_data.result),
                                ProcessingError(JsonKeyError)}
              ELSE answer' = result_data.error]_vars
    /\ [][(pc = "result" /\ pc' = "query") =>
              /\ ~result_data.success
              /\ prompt'.error = result_data.error
              /\ prompt'.traceback = result_data.traceback
              /\ prompt'.unavailable = result_data.unavailable_modules]_vars

C36_Witness ==
    /\ pc = "result"
    /\ ~result_data.success
    /\ result_data.result = NoValue
    /\ result_data.error # <<>>
    /\ result_data.traceback # <<>>
    /\ result_data.unavailable_modules # <<>>
    /\ Last(trace) = "setup_failure"

\* the statement whose value the fallback returns for a program: the last
\* assignment to the name that was first defined last among the names that do
\* not begin with an underscore; 0 when there is no such name
PickedStatement(prog) ==
    LET firsts == {i \in 1..Len(prog) :
                       /\ ~Private(prog[i].name)
                       /\ \A j \in 1..(i - 1) : prog[j].name # prog[i].name}
    IN  IF firsts = {} THEN 0
        ELSE LET pick == CHOOSE i \in firsts : \A j \in firsts : j <= i
             IN  CHOOSE k \in 1..Len(prog) :
                     /\ prog[k].name = prog[pick].name
                     /\ \A j \in (k + 1)..Len(prog) : prog[j].name # prog[pick].name

\* C37: without a binding named result, execute returns the value of the
\* variable first defined last among those whose name does not begin with an
\* underscore: a re-assignment of a variable defined earlier changes the value
\* returned for that variable and never which variable is picked.  The same
\* holds for the text blackbox.py's execute returns.
C37_Fallback ==
    /\ pc = "selected" =>
           /\ result_data.success
           /\ result_data.result =
                  IF PickedStatement(response) = 0 THEN SENTINEL
                  ELSE response[PickedStatement(response)].value
    /\ pc = "selected_text" =>
           answer = IF PickedStatement(response) = 0 THEN SENTINEL.repr
                    ELSE response[PickedStatement(response)].value.repr

C37_Witness ==
    /\ pc = "selected"
    /\ Len(response) = 3
    /\ response[1] = [name |-> "a", value |-> IntValue(<<"1">>)]
    /\ response[2] = [name |-> "b", value |-> IntValue(<<"1">>)]
    /\ response[3] = [name |-> "a", value |-> IntValue(<<"2">>)]
    /\ Len(local_dict) = 2
    /\ result_data = Success(IntValue(<<"1">>))

\* C38 (as claimed): in mistral.py the statuses raised for bad uploads reach
\* the caller as raised: an upload of more than MAX_SIZE bytes is answered
\* with status 413 and a corrupt ZIP archive within the limit with status 400.
C38_Claimed ==
    (pc = "done" /\ file.present /\ trace = <<"upload_error">>) =>
        /\ file.size > MAX_SIZE => status = 413
        /\ (file.size <= MAX_SIZE /\ file.zip = "corrupt") => status = 400
====
